---- MODULE Spec2Model ----
(***************************************************************************)
(* grab_archive.py: discover the .zip links of an index page, download     *)
(* each with resume and retry, and extract each into its own folder.       *)
(*                                                                         *)
(* The program is one sequential process; pc is its position.  The disk    *)
(* (zips, parts, dirs), the server (total, archive) and the process's      *)
(* locals are the state.  Network and archive I/O outcomes are chosen      *)
(* nondeterministically at the step that performs them.                    *)
(***************************************************************************)
EXTENDS Integers, Sequences, FiniteSets, TLC

\* ---------------------------------------------------------------- bounds
\* largest size (in bytes) of the resource the server holds
MaxTotal == 2
\* largest size of a staging file left on disk by an earlier run
MaxPart == 3
\* largest number of entries of an archive
MaxEntries == 2
\* largest number of links discovery returns
MaxUrls == 2

\* ------------------------------------------------------ program constants
\* download_with_resume(..., retries: int = 3, ...); main passes no other value
DefaultRetries == 3
\* Optional[int] = None
None == -1

VARIABLES
  pc,              \* position of the process
  skip_existing,   \* args.skip_existing
  force_reextract, \* args.force_reextract
  zip_urls,        \* list returned by list_zip_urls
  idx,             \* position of the for loop in zip_urls
  exit_code,       \* None while running, then the process exit code
  zips,            \* disk: dest_root/<name>           (file)
  parts,           \* disk: dest_root/<name>.part      (file)
  dirs,            \* disk: dest_root/<stem>/          (directory)
  total,           \* server: size of the resource
  archive,         \* server: entry names of the resource's archive
  attempt,         \* download_with_resume: attempt
  existing,        \* download_with_resume: existing
  total_size,      \* download_with_resume: total_size
  range,           \* download_with_resume: start of the Range header, or None
  body,            \* bytes the open response has still to deliver
  err,             \* download_with_resume: <<kind, attempt>> of the exception being handled
  gets,            \* number of GET requests issued by the current call
  waits,           \* arguments of time.sleep in the current call
  members,         \* safe_extract_zip: zf.infolist()
  ex_i,            \* safe_extract_zip: members validated so far
  ex_j,            \* safe_extract_zip: members written so far by extractall
  events,          \* what the orchestrator did, in order: <<kind, idx>>
  page,            \* server: the start tags of the index page, in order
  links,           \* list_zip_urls: parser.links
  fed,             \* list_zip_urls: start tags the parser has handled
  urls,            \* list_zip_urls: urls
  seen,            \* list_zip_urls: seen
  lk               \* list_zip_urls: links the for loop has taken

vars == <<pc, skip_existing, force_reextract, zip_urls, idx, exit_code, zips,
          parts, dirs, total, archive, attempt, existing, total_size, range,
          body, err, gets, waits, members, ex_i, ex_j, events, page, links,
          fed, urls, seen, lk>>

mainVars == <<skip_existing, force_reextract, zip_urls, idx, exit_code, events>>
serverVars == <<total, archive, page>>
listVars == <<links, fed, urls, seen, lk>>
dlVars == <<attempt, existing, total_size, range, body, err, gets, waits>>
exVars == <<members, ex_i, ex_j>>

\* ------------------------------------------------------------------ files
Absent == [exists |-> FALSE, data |-> <<>>]
File(d) == [exists |-> TRUE, data |-> d]
Size(f) == Len(f.data)

NoDir == [exists |-> FALSE, files |-> {}]
Dir(fs) == [exists |-> TRUE, files |-> fs]

RECURSIVE SeqsUpTo(_, _)
SeqsUpTo(S, n) ==
  IF n = 0 THEN {<<>>}
  ELSE LET shorter == SeqsUpTo(S, n - 1)
       IN  shorter \cup {Append(s, x) : s \in {t \in shorter : Len(t) = n - 1}, x \in S}

\* the resource the server holds: bytes 1..total
Resource == [i \in 1..total |-> i]

\* -------------------------------------------------------------- file names
\* A URL is its path, a sequence of tokens: "/" separates segments, "%xx" is
\* one percent-escape, ".zip" is the suffix, any other token is one character.
UrlCands ==
  { <<"/", "a", ".zip">>,
    <<"/", "b", ".zip">>,
    <<"/", "%3F", "a", ".zip">>,
    <<"/", "d", "/">> }

\* os.path.basename: what follows the last "/"
Basename(path) ==
  LET slashes == {i \in 1..Len(path) : path[i] = "/"}
      last == IF slashes = {} THEN 0
              ELSE CHOOSE i \in slashes : \A j \in slashes : j <= i
  IN  SubSeq(path, last + 1, Len(path))

\* urllib.parse.unquote, one token at a time
UnquoteTok(t) ==
  CASE t = "%3F" -> "?"
    [] t = "%2F" -> "/"
    [] t = "%20" -> " "
    [] OTHER -> t

Unquote(s) == [i \in 1..Len(s) |-> UnquoteTok(s[i])]

\* invalid = '<>:"\\|?*'
Invalid == {"<", ">", ":", "\"", "\\", "|", "?", "*"}

IsValidChar(ch) == ch \notin Invalid

RECURSIVE LStrip(_)
LStrip(s) == IF s # <<>> /\ Head(s) = " " THEN LStrip(Tail(s)) ELSE s

RECURSIVE RStrip(_)
RStrip(s) ==
  IF s # <<>> /\ s[Len(s)] = " " THEN RStrip(SubSeq(s, 1, Len(s) - 1)) ELSE s

\* "".join(ch for ch in fname if ch not in invalid).strip()
SafeFname(url) == RStrip(LStrip(SelectSeq(Unquote(Basename(url)), IsValidChar)))

\* zip_path.stem: the final path component without its last suffix
Stem(name) ==
  LET final == Basename(name)
  IN  IF Len(final) > 1 /\ final[Len(final)] = ".zip"
      THEN SubSeq(final, 1, Len(final) - 1)
      ELSE final

Names == {SafeFname(u) : u \in UrlCands} \ {<<>>}
Stems == {Stem(n) : n \in Names}

\* the URL of the current loop iteration and its paths
CurUrl == zip_urls[idx]
CurName == SafeFname(CurUrl)
CurStem == Stem(CurName)
Tmp == parts[CurName]
Dest == zips[CurName]
ExtractDir == dirs[CurStem]

\* ------------------------------------------------- download_with_resume
\* faulty variant: the early promotion only when the staging file is larger
AlreadyComplete_Strict(ex, ts) == ex # 0 /\ ts # None /\ ts # 0 /\ ex > ts

\* if existing and total_size and existing >= total_size
AlreadyComplete(ex, ts) == ex # 0 /\ ts # None /\ ts # 0 /\ ex >= ts

\* faulty variant: every request restarts at offset 0
RangeHeader_Restart(ex) == None

\* faulty variant: only a short file counts as a mismatch
SizeMismatch_ShortOnly(ts, sz) == ts # None /\ ts # 0 /\ sz < ts

\* if total_size and tmp.stat().st_size != total_size
SizeMismatch(ts, sz) == ts # None /\ ts # 0 /\ sz # ts

\* faulty variant: one attempt too many
RetriesExhausted_OffByOne(att) == att > DefaultRetries

\* if attempt >= retries
RetriesExhausted(att) == att >= DefaultRetries

\* headers["Range"] = f"bytes={existing}-" only if existing
RangeHeader(ex) == IF ex # 0 THEN ex ELSE None

\* faulty variant: attempts counted from 0
Backoff_FromZero(att) == 2 ^ (att - 1)

\* wait = 2 ** attempt
Backoff(att) == 2 ^ att

NoError == <<"none", 0>>

\* tmp.replace(dest): the staging file becomes the destination file
Promote ==
  /\ zips' = [zips EXCEPT ![CurName] = Tmp]
  /\ parts' = [parts EXCEPT ![CurName] = Absent]

\* One pass of the while loop up to the request: stat of the staging file, the
\* HEAD request (its failure, or a missing Content-Length, leaves total_size
\* None), the early promotion, the Range header.
\* The server is a parameter: AnyServer may fail or misbehave on every
\* request, HeadDown fails every HEAD and answers every GET correctly.
AnyServer == "any"
HeadDown == "head down"

DlAttemptOn(server) ==
  /\ pc = "dl_attempt"
  /\ attempt' = attempt + 1
  /\ LET ex == IF Tmp.exists THEN Size(Tmp) ELSE 0
     IN  /\ existing' = ex
         /\ \E ts \in (IF server = HeadDown THEN {None} ELSE {None, total}) :
              /\ total_size' = ts
              /\ IF AlreadyComplete(ex, ts)
                 THEN /\ Promote
                      /\ pc' = "dl_return"
                      /\ range' = None
                 ELSE /\ range' = RangeHeader(ex)
                      /\ pc' = "dl_open"
                      /\ UNCHANGED <<zips, parts>>
  /\ UNCHANGED <<mainVars, serverVars, listVars, exVars, dirs, body, err,
                 gets, waits>>

DlAttempt == DlAttemptOn(AnyServer)

\* urlopen(req) and open(tmp, "ab" if existing else "wb").  The server either
\* honours the Range header (416 when the offset is not inside the resource)
\* or ignores it and sends the whole resource; Content-Length may be missing.
\* urlopen raises on a network fault and on the 416 answer.
DlOpenOn(server) ==
  /\ pc = "dl_open"
  /\ gets' = gets + 1
  /\ \/ /\ server = AnyServer \/ (range # None /\ range >= total)
        /\ pc' = "dl_except"
        /\ err' = <<"urlopen", attempt>>
        /\ UNCHANGED <<parts, total_size, body>>
     \/ \E honour \in (IF server = HeadDown THEN {TRUE} ELSE BOOLEAN),
           hasCL \in BOOLEAN :
          LET off == IF honour /\ range # None THEN range ELSE 0
              resp == SubSeq(Resource, off + 1, total)
          IN  /\ ~(honour /\ range # None /\ range >= total)
              /\ parts' = IF existing # 0 THEN parts
                          ELSE [parts EXCEPT ![CurName] = File(<<>>)]
              /\ total_size' = IF total_size = None /\ hasCL
                               THEN existing + Len(resp)
                               ELSE total_size
              /\ body' = resp
              /\ pc' = "dl_stream"
              /\ err' = err
  /\ UNCHANGED <<mainVars, serverVars, listVars, exVars, zips, dirs, attempt,
                 existing,
                 range, waits>>

DlOpen == DlOpenOn(AnyServer)

\* faulty variant: the chunks are written to the destination path
DlRead_WritesDest ==
  /\ pc = "dl_stream"
  /\ \/ /\ body # <<>>
        /\ zips' = [zips EXCEPT ![CurName] = File(Append(Dest.data, Head(body)))]
        /\ body' = Tail(body)
        /\ UNCHANGED <<pc, err>>
     \/ /\ pc' = "dl_check"
        /\ body' = <<>>
        /\ UNCHANGED <<zips, err>>
     \/ /\ pc' = "dl_except"
        /\ err' = <<"read", attempt>>
        /\ body' = <<>>
        /\ zips' = zips
  /\ UNCHANGED <<mainVars, serverVars, listVars, exVars, parts, dirs,
                 attempt, existing,
                 total_size, range, gets, waits>>

\* One resp.read: a chunk is appended to the staging file, or the stream ends
\* (possibly before the whole body arrived), or the read raises; leaving the
\* with block closes the response.
DlReadOn(server) ==
  /\ pc = "dl_stream"
  /\ \/ /\ body # <<>>
        /\ parts' = [parts EXCEPT ![CurName] = File(Append(Tmp.data, Head(body)))]
        /\ body' = Tail(body)
        /\ UNCHANGED <<pc, err>>
     \/ /\ server = AnyServer \/ body = <<>>
        /\ pc' = "dl_check"
        /\ body' = <<>>
        /\ UNCHANGED <<parts, err>>
     \/ /\ server = AnyServer
        /\ pc' = "dl_except"
        /\ err' = <<"read", attempt>>
        /\ body' = <<>>
        /\ parts' = parts
  /\ UNCHANGED <<mainVars, serverVars, listVars, exVars, zips, dirs, attempt,
                 existing,
                 total_size, range, gets, waits>>

DlRead == DlReadOn(AnyServer)

\* After the stream: the size check, then the rename and the return.
DlCheck ==
  /\ pc = "dl_check"
  /\ IF SizeMismatch(total_size, Size(Tmp))
     THEN /\ pc' = "dl_except"
          /\ err' = <<"size mismatch", attempt>>
          /\ UNCHANGED <<zips, parts>>
     ELSE /\ Promote
          /\ pc' = "dl_return"
          /\ err' = err
  /\ UNCHANGED <<mainVars, serverVars, listVars, exVars, dirs, attempt,
                 existing,
                 total_size, range, body, gets, waits>>

\* except Exception as e: re-raise on the last attempt, else sleep
\* 2 ** attempt and leave the handler (e is unbound again).
DlExcept ==
  /\ pc = "dl_except"
  /\ IF RetriesExhausted(attempt)
     THEN /\ pc' = "dl_raised"
          /\ UNCHANGED <<waits, err>>
     ELSE /\ waits' = Append(waits, Backoff(attempt))
          /\ err' = NoError
          /\ pc' = "dl_attempt"
  /\ UNCHANGED <<mainVars, serverVars, listVars, exVars, zips, parts, dirs,
                 attempt,
                 existing, total_size, range, body, gets>>

DlNext == DlAttempt \/ DlOpen \/ DlRead \/ DlCheck \/ DlExcept

\* the locals of the two functions while neither is running
InitCommon ==
  /\ exit_code = None
  /\ attempt = 0
  /\ existing = 0
  /\ total_size = None
  /\ range = None
  /\ body = <<>>
  /\ err = NoError
  /\ gets = 0
  /\ waits = <<>>
  /\ members = <<>>
  /\ ex_i = 0
  /\ ex_j = 0
  /\ events = <<>>
  /\ links = <<>>
  /\ fed = 0
  /\ urls = <<>>
  /\ seen = {}
  /\ lk = 0

\* download_with_resume has returned or raised: its frame is gone
DropDlFrame ==
  /\ attempt' = 0
  /\ existing' = 0
  /\ total_size' = None
  /\ range' = None
  /\ body' = <<>>
  /\ err' = NoError
  /\ gets' = 0
  /\ waits' = <<>>

\* safe_extract_zip has returned or raised: its frame is gone
DropExFrame ==
  /\ members' = <<>>
  /\ ex_i' = 0
  /\ ex_j' = 0

\* download_with_resume called on its own, for one URL, with any staging file
\* and any destination file an earlier run may have left.

OldZip == File(<<9>>)

DlInitWith(stagings) ==
  /\ InitCommon
  /\ page = <<>>
  /\ pc = "dl_attempt"
  /\ skip_existing = FALSE
  /\ force_reextract = FALSE
  /\ zip_urls = << <<"/", "a", ".zip">> >>
  /\ idx = 1
  /\ total \in 0..MaxTotal
  /\ archive = << <<"f">> >>
  /\ \E st \in {Absent} \cup {File(d) : d \in stagings},
        old \in {Absent, OldZip} :
       /\ parts = [n \in Names |-> IF n = SafeFname(zip_urls[1]) THEN st ELSE Absent]
       /\ zips = [n \in Names |-> IF n = SafeFname(zip_urls[1]) THEN old ELSE Absent]
  /\ dirs = [s \in Stems |-> NoDir]

DlInit == DlInitWith(SeqsUpTo(1..MaxTotal, MaxPart))

DownloadSpec == DlInit /\ [][DlNext]_vars

\* The same call, the staging file given by its size alone, and the process
\* keeps running: every step of download_with_resume that can be taken is
\* taken (each request and each read ends, by an answer or by the timeout).
FairDlInit == DlInitWith(SeqsUpTo({1}, MaxPart))

FairDownloadSpec == FairDlInit /\ [][DlNext]_vars /\ WF_vars(DlNext)

\* The same call against a server whose HEAD always fails and whose GET is
\* correct, the staging file absent or holding the first bytes of the
\* resource, up to all of them.
Prefixes == {SubSeq(Resource, 1, k) : k \in 0..total}

HeadDownInit ==
  /\ InitCommon
  /\ page = <<>>
  /\ pc = "dl_attempt"
  /\ skip_existing = FALSE
  /\ force_reextract = FALSE
  /\ zip_urls = << <<"/", "a", ".zip">> >>
  /\ idx = 1
  /\ total \in 0..(MaxTotal + 1)
  /\ archive = << <<"f">> >>
  /\ \E st \in {Absent} \cup {File(d) : d \in Prefixes},
        old \in {Absent, OldZip} :
       /\ parts = [n \in Names |-> IF n = SafeFname(zip_urls[1]) THEN st ELSE Absent]
       /\ zips = [n \in Names |-> IF n = SafeFname(zip_urls[1]) THEN old ELSE Absent]
  /\ dirs = [s \in Stems |-> NoDir]

HeadDownNext ==
  \/ DlAttemptOn(HeadDown)
  \/ DlOpenOn(HeadDown)
  \/ DlReadOn(HeadDown)
  \/ DlCheck
  \/ DlExcept

HeadDownSpec == HeadDownInit /\ [][HeadDownNext]_vars

\* ------------------------------------------------------ safe_extract_zip
\* An entry's stored name is a sequence of characters.
EntryNames ==
  { <<"f">>,
    <<"d", "/", "f">>,
    <<".", ".", "/", "f">>,
    <<"d", "/", ".", ".", "/", "f">>,
    <<"/", "f">>,
    <<".", ".", "f">> }

\* Path(name).parts without the root: the segments between "/", the empty
\* ones and "." dropped
RECURSIVE Segments(_, _)
Segments(s, cur) ==
  LET keep == IF cur = <<>> \/ cur = <<".">> THEN <<>> ELSE <<cur>>
  IN  IF s = <<>> THEN keep
      ELSE IF Head(s) = "/" THEN keep \o Segments(Tail(s), <<>>)
      ELSE Segments(Tail(s), Append(cur, Head(s)))

\* Path(name).is_absolute()
IsAbsolute(name) == name # <<>> /\ Head(name) = "/"

\* p.is_absolute() or ".." in p.parts
IsSuspicious(name) ==
  \/ IsAbsolute(name)
  \/ \E k \in 1..Len(Segments(name, <<>>)) : Segments(name, <<>>)[k] = <<".", ".">>

\* faulty variant: the loop stops after the first member
ValidationDone_FirstOnly(i, ms) == i >= 1 \/ i >= Len(ms)

\* the for loop over zf.infolist() has inspected every member
ValidationDone(i, ms) == i >= Len(ms)

\* zipfile.ZipFile(zip_path) reads the file: the complete resource, or an
\* archive an earlier run left; anything else is not a zip file
ZipReadable(f) == f.exists /\ ((total > 0 /\ f.data = Resource) \/ f = OldZip)

\* extract_dir.mkdir(parents=True, exist_ok=True)
ExMkdir ==
  /\ pc = "ex_mkdir"
  /\ dirs' = [dirs EXCEPT ![CurStem] = IF @.exists THEN @ ELSE Dir({})]
  /\ pc' = "ex_open"
  /\ UNCHANGED <<mainVars, serverVars, listVars, dlVars, exVars, zips, parts>>

\* with zipfile.ZipFile(zip_path, "r") as zf
ExOpen ==
  /\ pc = "ex_open"
  /\ IF ZipReadable(Dest)
     THEN /\ members' = archive
          /\ pc' = "ex_validate"
     ELSE /\ members' = members
          /\ pc' = "ex_raised"
  /\ UNCHANGED <<mainVars, serverVars, listVars, dlVars, zips, parts, dirs,
                 ex_i, ex_j>>

\* one iteration of the validation loop, or its end
ExValidate ==
  /\ pc = "ex_validate"
  /\ IF ValidationDone(ex_i, members)
     THEN /\ pc' = "ex_extractall"
          /\ ex_i' = ex_i
     ELSE IF IsSuspicious(members[ex_i + 1])
          THEN /\ pc' = "ex_raised"
               /\ ex_i' = ex_i
          ELSE /\ ex_i' = ex_i + 1
               /\ pc' = pc
  /\ UNCHANGED <<mainVars, serverVars, listVars, dlVars, zips, parts, dirs,
                 members, ex_j>>

\* zf.extractall(path=extract_dir): one member written, or an I/O error, or
\* the end
ExExtractAll ==
  /\ pc = "ex_extractall"
  /\ IF ex_j >= Len(members)
     THEN /\ pc' = "ex_return"
          /\ UNCHANGED <<dirs, ex_j>>
     ELSE \/ /\ dirs' = [dirs EXCEPT ![CurStem] =
                           Dir(@.files \cup {members[ex_j + 1]})]
             /\ ex_j' = ex_j + 1
             /\ pc' = pc
          \/ /\ pc' = "ex_raised"
             /\ UNCHANGED <<dirs, ex_j>>
  /\ UNCHANGED <<mainVars, serverVars, listVars, dlVars, zips, parts,
                 members, ex_i>>

ExNext == ExMkdir \/ ExOpen \/ ExValidate \/ ExExtractAll

OldFiles == {<<"o">>}

\* safe_extract_zip called on its own, on any archive, into a folder that
\* is absent, empty or filled by an earlier run.
ExInit ==
  /\ InitCommon
  /\ page = <<>>
  /\ pc = "ex_mkdir"
  /\ skip_existing = FALSE
  /\ force_reextract = FALSE
  /\ zip_urls = << <<"/", "a", ".zip">> >>
  /\ idx = 1
  /\ total = 1
  /\ archive \in SeqsUpTo(EntryNames, MaxEntries)
  /\ \E z \in {File(<<1>>), File(<<>>)} :
       zips = [n \in Names |-> IF n = SafeFname(zip_urls[1]) THEN z ELSE Absent]
  /\ parts = [n \in Names |-> Absent]
  /\ \E d \in {NoDir, Dir({}), Dir(OldFiles)} :
       dirs = [s \in Stems |-> IF s = Stem(SafeFname(zip_urls[1])) THEN d ELSE NoDir]

ExtractSpec == ExInit /\ [][ExNext]_vars

\* ------------------------------------------------------------------ main
\* list_zip_urls returns each URL once (seen set)
NoDuplicates(seq) == \A i, j \in 1..Len(seq) : seq[i] = seq[j] => i = j

UrlLists == {l \in SeqsUpTo(UrlCands, MaxUrls) : NoDuplicates(l)}

Log(kind) == events' = Append(events, <<kind, idx>>)

\* the for loop takes the next URL
NextUrl ==
  /\ idx' = idx + 1
  /\ pc' = "loop"

\* faulty variant: break instead of continue
Continue_Break ==
  /\ idx' = Len(zip_urls) + 1
  /\ pc' = "loop"

\* the continue statement
Continue == NextUrl

\* faulty variant: an existing file is skipped whatever the flag
SkipDownload_IgnoresFlag(dest) == dest.exists

\* if zip_path.exists() and args.skip_existing
SkipDownload(dest) == dest.exists /\ skip_existing

\* if extract_dir.exists() and not args.force_reextract
SkipExtract(dir) == dir.exists /\ ~force_reextract

\* faulty variant: the folder is not removed
AfterClean_Keeps(dir) == dir

\* if extract_dir.exists() and args.force_reextract: shutil.rmtree
AfterClean(dir) == IF dir.exists /\ force_reextract THEN NoDir ELSE dir

\* faulty variant: a discovery error is reported and the loop runs all the same
Discover_IgnoresFailure ==
  /\ pc = "start"
  /\ Log("failed to read directory")
  /\ \E found \in UrlLists :
       /\ found # <<>>
       /\ zip_urls' = found
  /\ pc' = "loop"
  /\ idx' = 1
  /\ UNCHANGED <<skip_existing, force_reextract, exit_code, serverVars,
                 listVars, dlVars,
                 exVars, zips, parts, dirs>>

\* dest_root.mkdir, then list_zip_urls: it raises (exit 1), returns no link
\* (exit 0) or returns the links the loop will go through
Discover ==
  /\ pc = "start"
  /\ \/ /\ Log("failed to read directory")
        /\ exit_code' = 1
        /\ pc' = "exit"
        /\ UNCHANGED <<zip_urls, idx>>
     \/ \E found \in UrlLists :
          /\ zip_urls' = found
          /\ IF found = <<>>
             THEN /\ Log("no zip files found")
                  /\ exit_code' = 0
                  /\ pc' = "exit"
                  /\ idx' = idx
             ELSE /\ events' = events
                  /\ exit_code' = exit_code
                  /\ pc' = "loop"
                  /\ idx' = 1
  /\ UNCHANGED <<skip_existing, force_reextract, serverVars, listVars, dlVars,
                 exVars, zips, parts, dirs>>

\* for url in zip_urls: the file name, its cleaning, the skip-existing test,
\* the call of download_with_resume; past the last URL main returns
LoopStep ==
  /\ pc = "loop"
  /\ IF idx > Len(zip_urls)
     THEN /\ pc' = "exit"
          /\ exit_code' = 0
          /\ UNCHANGED <<idx, events, dlVars>>
     ELSE /\ exit_code' = exit_code
          /\ IF CurName = <<>>
             THEN /\ Log("invalid filename")
                  /\ Continue
                  /\ UNCHANGED dlVars
             ELSE IF SkipDownload(Dest)
             THEN /\ Log("skipped")
                  /\ pc' = "extract_step"
                  /\ UNCHANGED <<idx, dlVars>>
             ELSE /\ Log("download")
                  /\ pc' = "dl_attempt"
                  /\ UNCHANGED <<idx, dlVars>>
  /\ UNCHANGED <<skip_existing, force_reextract, zip_urls, serverVars,
                 listVars, exVars,
                 zips, parts, dirs>>

\* faulty variant: a download failure ends the run with exit code 1
DownloadFailed_Exits ==
  /\ pc = "dl_raised"
  /\ Log("download failed")
  /\ pc' = "exit"
  /\ exit_code' = 1
  /\ DropDlFrame
  /\ UNCHANGED <<skip_existing, force_reextract, zip_urls, idx, serverVars,
                 listVars,
                 exVars, zips, parts, dirs>>

\* faulty variant: the handler lacks its continue
DownloadFailed_FallsThrough ==
  /\ pc = "dl_raised"
  /\ Log("download failed")
  /\ pc' = "extract_step"
  /\ DropDlFrame
  /\ UNCHANGED <<skip_existing, force_reextract, zip_urls, idx, exit_code,
                 serverVars, listVars, exVars, zips, parts, dirs>>

\* except Exception around download_with_resume
DownloadFailed ==
  /\ pc = "dl_raised"
  /\ Log("download failed")
  /\ Continue
  /\ DropDlFrame
  /\ UNCHANGED <<skip_existing, force_reextract, zip_urls, exit_code,
                 serverVars, listVars, exVars, zips, parts, dirs>>

\* the extraction folder: already extracted, or cleaned when forced, then the
\* call of safe_extract_zip
ExtractStep ==
  /\ pc \in {"dl_return", "extract_step"}
  /\ IF SkipExtract(ExtractDir)
     THEN /\ Log("already extracted")
          /\ Continue
          /\ dirs' = dirs
     ELSE /\ dirs' = [dirs EXCEPT ![CurStem] = AfterClean(@)]
          /\ events' = IF ExtractDir.exists
                       THEN events \o << <<"cleaning", idx>>, <<"extracting", idx>> >>
                       ELSE Append(events, <<"extracting", idx>>)
          /\ pc' = "ex_mkdir"
          /\ idx' = idx
  /\ DropDlFrame
  /\ UNCHANGED <<skip_existing, force_reextract, zip_urls, exit_code,
                 serverVars, listVars, exVars, zips, parts>>

\* safe_extract_zip returned or raised
ExtractDone ==
  /\ pc \in {"ex_return", "ex_raised"}
  /\ Log(IF pc = "ex_return" THEN "extracted" ELSE "extraction failed")
  /\ NextUrl
  /\ DropExFrame
  /\ UNCHANGED <<skip_existing, force_reextract, zip_urls, exit_code,
                 serverVars, listVars, dlVars, zips, parts, dirs>>

MainTotals == {1}
MainArchives == { << <<"f">> >>, << <<"f">>, <<".", ".", "/", "f">> >> }

Init ==
  /\ InitCommon
  /\ page = <<>>
  /\ pc = "start"
  /\ skip_existing \in BOOLEAN
  /\ force_reextract \in BOOLEAN
  /\ zip_urls = <<>>
  /\ idx = 0
  /\ total \in MainTotals
  /\ archive \in MainArchives
  /\ \E z \in {Absent, OldZip} :
       zips = [n \in Names |-> IF n = <<"a", ".zip">> THEN z ELSE Absent]
  /\ parts = [n \in Names |-> Absent]
  /\ \E d \in {NoDir, Dir(OldFiles)} :
       dirs = [s \in Stems |-> IF s = <<"a">> THEN d ELSE NoDir]

\* URLs whose last path segment decodes to a name with separators
PathUrlCands ==
  { <<"/", "a", ".zip">>,
    <<"/", "d", "/", "c", ".zip">>,
    <<"/", ".", ".", "%2F", "x", ".zip">>,
    <<"/", "%2F", "x", ".zip">> }

PathUrlLists == {l \in SeqsUpTo(PathUrlCands, MaxUrls) : l # <<>> /\ NoDuplicates(l)}

PathNames == {SafeFname(u) : u \in PathUrlCands}
PathStems == {Stem(n) : n \in PathNames}

\* the state of main when discovery has returned such URLs, on an empty
\* destination root
PathInit ==
  /\ InitCommon
  /\ page = <<>>
  /\ pc = "loop"
  /\ skip_existing \in BOOLEAN
  /\ force_reextract \in BOOLEAN
  /\ zip_urls \in PathUrlLists
  /\ idx = 1
  /\ total \in MainTotals
  /\ archive \in MainArchives
  /\ zips = [n \in PathNames |-> Absent]
  /\ parts = [n \in PathNames |-> Absent]
  /\ dirs = [s \in PathStems |-> NoDir]

PathNext ==
  \/ LoopStep
  \/ DlNext
  \/ DownloadFailed
  \/ ExtractStep
  \/ ExNext
  \/ ExtractDone

PathSpec == PathInit /\ [][PathNext]_vars

Next ==
  \/ Discover
  \/ LoopStep
  \/ DlAttempt
  \/ DlOpen
  \/ DlRead
  \/ DlCheck
  \/ DlExcept
  \/ DownloadFailed
  \/ ExtractStep
  \/ ExMkdir
  \/ ExOpen
  \/ ExValidate
  \/ ExExtractAll
  \/ ExtractDone

Spec == Init /\ [][Next]_vars

\* --------------------------------------------------------- list_zip_urls
\* An href is a sequence of tokens; a start tag is its name and its href
\* (NoHref when the attribute is missing or empty: both are false in
\* "if href and ...").
MaxTags == 2

NoHref == <<>>

Tag(t, h) == [tag |-> t, href |-> h]

TagCands ==
  { Tag("a", <<"g", ".zip">>),
    Tag("A", <<"G", ".ZIP">>),
    Tag("a", <<"r", ".txt">>),
    Tag("a", NoHref),
    Tag("p", <<"g", ".zip">>),
    Tag("a", <<"q", "?", "g", ".zip">>),
    Tag("a", <<"g", ".zip", " ">>),
    Tag("a", <<" ", "g", ".zip">>),
    Tag("a", <<"./", "g", ".zip">>) }

Pages == SeqsUpTo(TagCands, MaxTags)

\* str.lower, one token at a time
Lower(t) ==
  CASE t = "A" -> "a"
    [] t = "G" -> "g"
    [] t = ".ZIP" -> ".zip"
    [] OTHER -> t

\* s.lower().endswith(".zip")
EndsWithZip(s) == s # <<>> /\ Lower(s[Len(s)]) = ".zip"

\* the path of base_url, a directory
BasePath == <<"/", "dir", "/">>

RECURSIVE DropDot(_)
DropDot(rel) == IF rel # <<>> /\ Head(rel) = "./" THEN DropDot(Tail(rel)) ELSE rel

\* urllib.parse.urljoin(base_url, href) for a relative href: the path before
\* the first "?" replaces the last segment of the base path ("./" segments
\* removed), an empty one leaves the base path; what follows is the query
UrlJoin(href) ==
  LET marks == {i \in 1..Len(href) : href[i] = "?"}
      q == IF marks = {} THEN Len(href) + 1
           ELSE CHOOSE i \in marks : \A j \in marks : i <= j
      rel == DropDot(SubSeq(href, 1, q - 1))
      dir == SubSeq(BasePath, 1, Len(BasePath) - Len(Basename(BasePath)))
  IN  [path |-> IF rel = <<>> THEN BasePath ELSE dir \o rel,
       query |-> SubSeq(href, q + 1, Len(href))]

\* fetch_html(base_url): the page arrives, or the request raises
ListFetch ==
  /\ pc = "list_fetch"
  /\ \/ pc' = (IF page = <<>> THEN "list_loop" ELSE "list_feed")
     \/ pc' = "list_raised"
  /\ UNCHANGED <<mainVars, serverVars, listVars, dlVars, exVars, zips, parts,
                 dirs>>

\* parser.feed(html): handle_starttag on the next start tag
HandleStartTag ==
  /\ pc = "list_feed"
  /\ LET t == page[fed + 1]
     IN  links' = IF Lower(t.tag) = "a" /\ t.href # NoHref /\ EndsWithZip(t.href)
                  THEN Append(links, RStrip(LStrip(t.href)))
                  ELSE links
  /\ fed' = fed + 1
  /\ pc' = IF fed' = Len(page) THEN "list_loop" ELSE pc
  /\ UNCHANGED <<mainVars, serverVars, dlVars, exVars, zips, parts, dirs,
                 urls, seen, lk>>

\* for href in parser.links: one iteration
ResolveLink ==
  /\ pc = "list_loop"
  /\ lk < Len(links)
  /\ lk' = lk + 1
  /\ LET full == UrlJoin(links[lk + 1])
     IN  IF full \notin seen
         THEN /\ seen' = seen \cup {full}
              /\ urls' = Append(urls, full)
         ELSE UNCHANGED <<seen, urls>>
  /\ UNCHANGED <<pc, mainVars, serverVars, dlVars, exVars, zips, parts, dirs,
                 links, fed>>

\* return urls
ListReturn ==
  /\ pc = "list_loop"
  /\ lk = Len(links)
  /\ pc' = "list_return"
  /\ UNCHANGED <<mainVars, serverVars, listVars, dlVars, exVars, zips, parts,
                 dirs>>

ListNext == ListFetch \/ HandleStartTag \/ ResolveLink \/ ListReturn

\* list_zip_urls called on its own, for any index page
ListInit ==
  /\ InitCommon
  /\ page \in Pages
  /\ pc = "list_fetch"
  /\ skip_existing = FALSE
  /\ force_reextract = FALSE
  /\ zip_urls = <<>>
  /\ idx = 0
  /\ total = 1
  /\ archive = << <<"f">> >>
  /\ zips = [n \in Names |-> Absent]
  /\ parts = [n \in Names |-> Absent]
  /\ dirs = [s \in Stems |-> NoDir]

ListSpec == ListInit /\ [][ListNext]_vars

\* ---------------------------------------------------------------- claims
\* the call promoted the staging file in this step
Promoted == pc # "dl_return" /\ pc' = "dl_return"

\* C1: whenever the expected total size is known, the staging file is renamed
\* onto the destination only if its size equals that total exactly; on a size
\* mismatch after the stream the destination is not written and the staging
\* file stays on disk.
C1_PromotedOnlyOnExactSize ==
  [][ /\ (Promoted /\ total_size' # None) => Size(zips'[CurName]) = total_size'
      /\ (pc = "dl_check" /\ total_size # None /\ Size(Tmp) # total_size)
           => (zips' = zips /\ parts' = parts /\ pc' = "dl_except") ]_vars

\* C2: whenever download_with_resume returns without raising, the destination
\* file is a complete, byte-exact copy of the resource.
C2_ReturnedFileIsExactCopy ==
  pc = "dl_return" => Dest = File(Resource)

C7_ResumeFromStagedSize ==
  [][ /\ (pc = "dl_attempt" /\ pc' # "dl_attempt" /\ Tmp.exists
          /\ total_size' # None /\ 0 < Size(Tmp) /\ Size(Tmp) < total_size')
           => (pc' = "dl_open" /\ range' = Size(Tmp))
      /\ (pc = "dl_attempt" /\ pc' # "dl_attempt" /\ ~Tmp.exists)
           => (pc' = "dl_open" /\ range' = None)
      /\ (pc = "dl_open" /\ pc' = "dl_stream" /\ range # None)
           => (gets' = gets + 1 /\ parts' = parts)
      /\ (pc = "dl_stream" /\ parts' # parts)
           => (\E b \in 1..MaxTotal : parts'[CurName] = File(Append(Tmp.data, b)))
      /\ (pc = "dl_check" /\ pc' = "dl_return" /\ range # None
          /\ total_size # None /\ range < total_size)
           => Size(zips'[CurName]) = total_size ]_vars

C7_Witness ==
  /\ pc = "dl_return"
  /\ attempt = 1
  /\ gets = 1
  /\ range # None
  /\ 0 < range
  /\ range < total
  /\ total_size = total
  /\ Dest = File(Resource)

Unsafe(name) ==
  \/ (name # <<>> /\ name[1] = "/")
  \/ \E i \in 1..(Len(name) - 1) :
       /\ name[i] = "." /\ name[i + 1] = "."
       /\ (i = 1 \/ name[i - 1] = "/")
       /\ (i + 1 = Len(name) \/ name[i + 2] = "/")

HasUnsafeEntry == \E k \in 1..Len(archive) : Unsafe(archive[k])

\* C3: safe_extract_zip validates every entry before expanding any: if any
\* entry's stored path is absolute or contains a ".." segment the call does
\* not return normally and writes no file; a file is written only after the
\* whole entry list has passed.
C3_ValidateAllBeforeExtract ==
  /\ [](HasUnsafeEntry => (ex_j = 0 /\ pc # "ex_return" /\ pc # "ex_extractall"))
  /\ [][ (dirs'[CurStem].files # dirs[CurStem].files)
           => (~HasUnsafeEntry /\ ex_i = Len(archive) /\ members = archive) ]_vars

C3_Witness ==
  /\ pc = "ex_raised"
  /\ ex_i >= 1
  /\ Len(members) > ex_i
  /\ Unsafe(members[ex_i + 1])
  /\ ex_j = 0

\* the loop iterations begun so far, by the first message of each
Begun ==
  SelectSeq(events, LAMBDA e : e[1] \in {"invalid filename", "skipped", "download"})

\* C4: once discovery has returned a non-empty list, the loop handles every
\* URL exactly once, in discovery order, finishing one URL before starting the
\* next; a failure on one URL never keeps a later URL from being handled.
C4_EveryUrlOnceInOrder ==
  /\ \A k \in 1..Len(Begun) : Begun[k][2] = k
  /\ \A i, j \in 1..Len(events) : i <= j => events[i][2] <= events[j][2]
  /\ (pc \notin {"start", "exit"}) => Len(Begun) \in {idx - 1, idx}
  /\ (pc = "exit" /\ zip_urls # <<>>) => Len(Begun) = Len(zip_urls)

C4_Witness ==
  /\ pc = "exit"
  /\ Len(zip_urls) = 2
  /\ \E i \in 1..Len(events) : events[i] = <<"download failed", 1>>
  /\ \E i \in 1..Len(events) : events[i] = <<"extracted", 2>>

\* C5: the exit code is 1 exactly when link discovery raises, and 0 in every
\* other run: no link found, or the loop completed whatever the per-file
\* errors.
C5_ExitCode ==
  /\ (pc # "exit") <=> (exit_code = None)
  /\ (pc = "exit") =>
       /\ exit_code \in {0, 1}
       /\ (exit_code = 1) <=> (events = << <<"failed to read directory", 0>> >>)

C5_Witness ==
  /\ pc = "exit"
  /\ exit_code = 0
  /\ \E i \in 1..Len(events) : events[i][1] = "download failed"
  /\ \E i \in 1..Len(events) : events[i][1] = "extraction failed"

\* C9: for a URL with a destination path, if the zip file exists and
\* --skip-existing is set the downloader is not invoked and the file is left
\* unchanged, and extraction still runs when the folder does not exist; in
\* every other case the downloader is invoked.
C9_SkipExisting ==
  [][ /\ (pc = "loop" /\ idx <= Len(zip_urls) /\ CurName # <<>>)
           => IF Dest.exists /\ skip_existing
              THEN pc' = "extract_step" /\ zips' = zips /\ parts' = parts
              ELSE pc' = "dl_attempt" /\ attempt' = 0
      /\ (pc \in {"extract_step", "ex_mkdir", "ex_open", "ex_validate",
                  "ex_extractall", "ex_return", "ex_raised"})
           => zips' = zips
      /\ (pc = "extract_step" /\ ~ExtractDir.exists) => pc' = "ex_mkdir" ]_vars

C9_Witness ==
  /\ pc = "ex_return"
  /\ skip_existing
  /\ Dest = OldZip
  /\ events[Len(events)] = <<"extracting", idx>>
  /\ events[Len(events) - 1] = <<"skipped", idx>>

InExtractor ==
  pc \in {"ex_mkdir", "ex_open", "ex_validate", "ex_extractall", "ex_return",
          "ex_raised"}

C12_DestChangesOnlyByRename ==
  /\ [][ (zips' # zips)
           => /\ Promoted
              /\ Tmp.exists
              /\ zips' = [zips EXCEPT ![CurName] = Tmp]
              /\ ~parts'[CurName].exists ]_vars
  /\ [][ (pc = "dl_stream" /\ body' # body /\ pc' = pc)
           => /\ parts'[CurName] = File(Append(Tmp.data, Head(body)))
              /\ zips' = zips ]_vars
  /\ [](pc # "dl_return" => Dest \in {Absent, OldZip})

C12_Witness ==
  /\ pc = "dl_raised"
  /\ Tmp.exists
  /\ Size(Tmp) > 0
  /\ Dest = OldZip

\* C13: if download_with_resume raises for a URL, the orchestrator logs the
\* error for that file and invokes neither the folder removal nor the
\* extractor for that URL, even when a zip of an earlier run exists; it then
\* takes the next URL.
C13_FailedDownloadSkipsExtraction ==
  /\ [][ (pc = "dl_raised")
           => /\ events' = Append(events, <<"download failed", idx>>)
              /\ pc' = "loop"
              /\ idx' = idx + 1
              /\ dirs' = dirs
              /\ zips' = zips ]_vars
  /\ [](\A i, j \in 1..Len(events) :
          events[i][1] = "download failed"
            => ~(events[j][2] = events[i][2]
                 /\ events[j][1] \in {"cleaning", "extracting", "extracted",
                                      "extraction failed", "already extracted"}))

C13_Witness ==
  /\ pc = "loop"
  /\ idx = 2
  /\ force_reextract
  /\ events[Len(events)] = <<"download failed", 1>>
  /\ zips[SafeFname(zip_urls[1])] = OldZip
  /\ dirs[Stem(SafeFname(zip_urls[1]))] = Dir(OldFiles)

\* C14: within one call the staging file never shrinks from one step to the
\* next and keeps every byte already written, and an attempt that follows a
\* failed one requests the data from the staging file's current size.
C14_StagingNeverShrinks ==
  [][ /\ (Tmp.exists /\ ~Promoted)
           => /\ parts'[CurName].exists
              /\ Size(parts'[CurName]) >= Size(Tmp)
              /\ SubSeq(parts'[CurName].data, 1, Size(Tmp)) = Tmp.data
      /\ (pc = "dl_attempt" /\ attempt >= 1 /\ pc' = "dl_open")
           => range' = (IF Tmp.exists /\ Size(Tmp) > 0 THEN Size(Tmp) ELSE None) ]_vars

C14_Witness ==
  /\ pc = "dl_open"
  /\ attempt = 2
  /\ range # None
  /\ range > 0
  /\ range = Size(Tmp)

\* C17: the failed attempt numbered k < retries is followed by a wait of
\* exactly 2^k seconds (2 then 4 with 3 retries) before attempt k+1 starts,
\* and no wait follows the last failed attempt.
C17_ExponentialBackoff ==
  /\ Len(waits) <= 2
  /\ waits = SubSeq(<<2, 4>>, 1, Len(waits))
  /\ \A k \in 1..Len(waits) : waits[k] = 2 ^ k
  /\ Len(waits) = (IF pc = "dl_attempt" THEN attempt ELSE attempt - 1)
  /\ (pc = "dl_raised") => Len(waits) = DefaultRetries - 1

C17_Witness ==
  /\ pc = "dl_raised"
  /\ waits = <<2, 4>>


\* C16: if link discovery raises or returns zero links, the run ends without
\* invoking the downloader or the extractor for any URL and without
\* creating, modifying or removing anything under the destination root.
C16_ShortCircuit ==
  /\ [][ (pc = "start" /\ pc' = "exit") => UNCHANGED <<zips, parts, dirs>> ]_vars
  /\ []((events # <<>> /\ events[1][1] \in {"failed to read directory",
                                            "no zip files found"})
          => /\ pc = "exit"
             /\ Len(events) = 1
             /\ zip_urls = <<>>
             /\ attempt = 0
             /\ gets = 0
             /\ members = <<>>)
  /\ []((pc = "exit" /\ zip_urls = <<>>) => Len(events) = 1)

C16_Witness ==
  /\ pc = "exit"
  /\ events = << <<"no zip files found", 0>> >>
  /\ zips[<<"a", ".zip">>] = OldZip
  /\ dirs[<<"a">>] = Dir(OldFiles)

\* the extraction of some URL with extraction folder s completed
ExtractedInto(s) ==
  \E k \in 1..Len(events) :
    /\ events[k][1] = "extracted"
    /\ Stem(SafeFname(zip_urls[events[k][2]])) = s

\* C20: an extraction folder exists on disk only if safe_extract_zip
\* completed successfully for its archive (in this run, or in the earlier
\* run that left it); after a rejected or failed extraction the folder is
\* not found present and the archive is not reported as already extracted.
C20_FolderOnlyAfterSuccess ==
  /\ (pc \in {"loop", "exit"})
       => \A s \in DOMAIN dirs :
            dirs[s].exists => (OldFiles \subseteq dirs[s].files \/ ExtractedInto(s))
  /\ \A j, k \in 1..Len(events) :
       (j < k /\ events[j][1] = "extraction failed"
        /\ events[k][1] = "already extracted")
         => Stem(SafeFname(zip_urls[events[j][2]]))
              # Stem(SafeFname(zip_urls[events[k][2]]))


\* dest_root / name, followed from the root one segment at a time: the depth
\* reached below the root, -1 once the path has left it
RECURSIVE Climb(_, _)
Climb(segs, depth) ==
  IF segs = <<>> THEN depth
  ELSE IF Head(segs) = <<".", ".">>
       THEN IF depth = 0 THEN -1 ELSE Climb(Tail(segs), depth - 1)
       ELSE Climb(Tail(segs), depth + 1)

\* the path dest_root / name names something below dest_root
InsideRoot(name) == ~IsAbsolute(name) /\ Climb(Segments(name, <<>>), 0) >= 1

InDownloader ==
  pc \in {"dl_attempt", "dl_open", "dl_stream", "dl_check", "dl_except",
          "dl_return", "dl_raised"}

\* C19: for every discovered URL, also one whose last path segment holds a
\* percent-encoded separator or "..", the zip path, its staging path and the
\* extraction folder lie inside the destination root, and no file outside
\* the root is created, overwritten or removed.
C19_PathsInsideRoot ==
  /\ [](InDownloader => InsideRoot(CurName))
  /\ [](InExtractor => InsideRoot(CurStem))
  /\ [][ \A n \in DOMAIN zips :
           (zips'[n] # zips[n] \/ parts'[n] # parts[n]) => InsideRoot(n) ]_vars
  /\ [][ \A s \in DOMAIN dirs : dirs'[s] # dirs[s] => InsideRoot(s) ]_vars


FailureKinds == {"invalid filename", "download failed", "extraction failed"}

\* the name a failure message prints: {fname!r} for an invalid file name,
\* {safe_fname} for a failed download or extraction
Printed(e) ==
  IF e[1] = "invalid filename"
  THEN Unquote(Basename(zip_urls[e[2]]))
  ELSE SafeFname(zip_urls[e[2]])

\* every failure of the current URL is followed at once by its message
C18_MessageOnEveryFailure ==
  /\ [][ (pc = "loop" /\ idx <= Len(zip_urls) /\ CurName = <<>>)
           => events' = Append(events, <<"invalid filename", idx>>) ]_vars
  /\ [][ pc = "dl_raised"
           => events' = Append(events, <<"download failed", idx>>) ]_vars
  /\ [][ pc = "ex_raised"
           => events' = Append(events, <<"extraction failed", idx>>) ]_vars
  /\ [][ idx' # idx => /\ idx' = idx + 1
                       /\ \A k \in 1..Len(events') : events'[k][2] <= idx ]_vars

\* C18: every failure path of the loop for a URL (file name empty after
\* cleaning, download failure after the retries, extraction rejected as
\* unsafe, I/O error during extraction) prints an error message that
\* identifies the affected file before the next URL is handled.
C18_FailureMessageNamesFile ==
  /\ C18_MessageOnEveryFailure
  /\ [](\A k \in 1..Len(events) :
          events[k][1] \in FailureKinds => Printed(events[k]) # <<>>)


\* C15: a failing HEAD request is never by itself fatal: whatever the staging
\* file holds (nothing, a part, or all bytes of the resource), if HEAD fails
\* on every attempt while GET and Range requests are answered correctly,
\* download_with_resume does not raise and returns with the complete file at
\* the destination.
C15_HeadFailureNotFatal ==
  /\ pc # "dl_raised"
  /\ pc = "dl_return" => Dest = File(Resource)


\* the URL a start tag contributes, and whether it contributes one
Resolved(t) == UrlJoin(RStrip(LStrip(t.href)))

IsZipAnchor(t) == Lower(t.tag) = "a" /\ t.href # NoHref /\ EndsWithZip(t.href)

FirstAt(u) ==
  CHOOSE i \in 1..Len(page) :
    /\ IsZipAnchor(page[i]) /\ Resolved(page[i]) = u
    /\ \A j \in 1..(i - 1) : ~(IsZipAnchor(page[j]) /\ Resolved(page[j]) = u)

\* the returned list holds the resolved URL of every zip anchor of the page,
\* once, in the order of first occurrence, case kept
C11_DedupInOrder ==
  pc = "list_return" =>
    /\ NoDuplicates(urls)
    /\ \A k \in 1..Len(urls) :
         \E i \in 1..Len(page) : IsZipAnchor(page[i]) /\ Resolved(page[i]) = urls[k]
    /\ \A i \in 1..Len(page) :
         IsZipAnchor(page[i]) => \E k \in 1..Len(urls) : urls[k] = Resolved(page[i])
    /\ \A j, k \in 1..Len(urls) : j < k => FirstAt(urls[j]) < FirstAt(urls[k])

\* C11: for every index page list_zip_urls returns only URLs whose path ends
\* in ".zip" (case-insensitive), each resolved against the base URL, none
\* repeated, in the order of first occurrence in the page; hrefs that differ
\* only in case stay distinct and non-zip hrefs are left out.
C11_OnlyZipPaths ==
  /\ C11_DedupInOrder
  /\ pc = "list_return" => \A k \in 1..Len(urls) : EndsWithZip(urls[k].path)

====
